---- MODULE Spec2Model ----
(***************************************************************************)
(* Model of the OAuth2 authorization-code flow of core/oauth.ts:           *)
(* startOAuthFlow (local callback server, 5 minute timer, outer promise)   *)
(* and exchangeCodeForTokens.                                              *)
(*                                                                         *)
(* One behaviour is one call of startOAuthFlow.  The events of the Node    *)
(* event loop are the actions: the listen outcome, a request delivered to  *)
(* the request handler, a token-endpoint answer resuming a suspended       *)
(* handler, and the timer.  Each action is one run-to-completion turn.     *)
(*                                                                         *)
(* Environment: the server hands a request to the handler only while it    *)
(* is accepting connections; the listen outcome is known before the        *)
(* 300000 ms timer can fire.                                               *)
(*                                                                         *)
(* Spec and FairSpec are the whole flow for a Strava-like config.          *)
(* TokenSpec is one call of exchangeCodeForTokens or refreshAccessToken    *)
(* on its own, for every shape of token answer.  UrlSpec is the flow up    *)
(* to its token-exchange POST for every config (scopes, separator,         *)
(* additionalParams).  Strings built by concatenation are the sequences    *)
(* of their non-empty pieces.                                              *)
(*                                                                         *)
(* Around the flow: LaunchSpec lets the browser launch fail, MethodSpec    *)
(* sends requests of other methods than GET, PortSpec starts a second      *)
(* flow in the same process, StoreSpec and SyncSpec are authenticate()     *)
(* and sync() of the Strava integration with the .env file they write,     *)
(* EnvSpec is updateEnvFile on every prior file, and MigSpec is            *)
(* runAllMigrations over the registered integrations.                      *)
(***************************************************************************)
EXTENDS Integers, Sequences, FiniteSets, TLC

\* ---------------------------------------------------------------- bounds
\* Number of requests the local server receives in one flow.
MaxRequests == 2
\* Number of entries of config.additionalParams.
MaxParams == 2

\* ------------------------------------------------------- value encodings
\* URLSearchParams.get() returns null for an absent parameter; an absent
\* JSON string field is undefined.  Both are falsy.
Null == "<null>"
\* An absent JSON number field (undefined).
NoNum == -1

\* JavaScript truthiness of a string-or-null value.
Truthy(s) == s # Null /\ s # ""
\* JavaScript truthiness of a number-or-undefined value.
TruthyNum(n) == n # NoNum /\ n # 0
\* a || b on string-or-null values.
OrNullish(a, b) == IF a # Null THEN a ELSE b
Or(a, b) == IF Truthy(a) THEN a ELSE b

\* ------------------------------------------------------------ input sets
Ports == {0, 9000}
Codes == {Null, "", "c1", "c2"}
Errors == {Null, "", "access_denied"}
Descriptions == {Null, "", "User denied"}
Times == {1000}

\* Requests the browser (or anything else on localhost) can send.
\* A provider sends error_description only along with an error.
CallbackRequests ==
  {r \in [method : {"GET"}, path : {"/callback"}, code : Codes, error : Errors,
          error_description : Descriptions] :
     r.error_description # Null => r.error = "access_denied"}
OtherRequests ==
  [method : {"GET"}, path : {"/favicon.ico"}, code : {Null}, error : {Null},
   error_description : {Null}]
Requests == CallbackRequests \cup OtherRequests
\* Requests with another method than GET.
NonGetRequests ==
  [method : {"POST"}, path : {"/callback", "/favicon.ico"}, code : {Null, "c1"},
   error : {Null, "access_denied"}, error_description : {Null}]

\* An answer that is not 2xx has no JSON body the functions read.
NoData == [none |-> TRUE]

\* JSON bodies of a 2xx answer of the token endpoint.
TokenData ==
  [access_token : {"T"}, refresh_token : {Null, "R"}, expires_in : {3600},
   token_type : {Null}, scope : {Null}]
\* Outcomes of fetch(config.tokenUrl, ...).
TokenResponses ==
  [kind : {"ok"}, status : {200}, text : {""}, data : TokenData]
    \cup [kind : {"http_error"}, status : {400}, text : {"invalid_grant"}, data : {NoData}]
    \cup [kind : {"network_error"}, status : {0}, text : {"fetch failed"}, data : {NoData}]

\* A handler that has had no answer from the token endpoint.
NoAnswer == [kind |-> "none", status |-> 0, text |-> "", data |-> NoData]

\* JSON bodies of a 2xx answer as the two token-endpoint functions meet
\* them when called on their own: any field may be missing or empty, and
\* the body may carry fields the functions do not read.
TokenJson ==
  [access_token : {Null, "", "T2"}, refresh_token : {Null, "", "R2"},
   expires_in : {NoNum, 0, 3600}, token_type : {Null, "Bearer"}, scope : {Null},
   expiresAt : {NoNum, 5}]
TokenAnswers ==
  [kind : {"ok"}, status : {200}, text : {""}, data : TokenJson]
    \cup [kind : {"http_error"}, status : {400, 401}, text : {"invalid_grant"}, data : {NoData}]
    \cup [kind : {"network_error"}, status : {0}, text : {"fetch failed"}, data : {NoData}]
RefreshInputs == {"", "R1"}
AnswerTimes == {1000, 2000}

\* The caller's OAuthConfig (callbackPort 0 stands for unset).
Configs ==
  [clientId : {"id"}, clientSecret : {"secret"}, callbackPort : Ports,
   scopes : {<<"read", "activity:read_all">>}, scopeSeparator : {","},
   additionalParams : {<<[key |-> "approval_prompt", value |-> <<"auto">>]>>}]

\* Entries a caller may put in additionalParams: an extra parameter and
\* the four names the flow sets itself.
ParamEntries ==
  {[key |-> "approval_prompt", value |-> <<"auto">>],
   [key |-> "client_id", value |-> <<"other">>],
   [key |-> "redirect_uri", value |-> <<"http://other/cb">>],
   [key |-> "response_type", value |-> <<"token">>],
   [key |-> "scope", value |-> <<"custom">>]}
\* Object.entries of a record: any order, no key twice.
AdditionalParams ==
  {q \in UNION {[1..n -> ParamEntries] : n \in 0..MaxParams} :
     \A i, j \in 1..Len(q) : q[i].key = q[j].key => i = j}
ScopeLists ==
  {<<>>, <<"read">>, <<"read", "activity:read_all">>, <<"activity:read_all", "read">>}
\* scopeSeparator: unset, empty, or a comma.
Separators == {Null, "", ","}
\* The configs the URL construction is checked for.
UrlConfigs ==
  [clientId : {"id"}, clientSecret : {"secret"}, callbackPort : Ports,
   scopes : ScopeLists, scopeSeparator : Separators, additionalParams : AdditionalParams]

VARIABLES
  config,        \* the OAuthConfig of this call
  server,        \* "binding" | "listening" | "closed" | "failed"
  closeCalls,    \* number of server.close() invocations
  promise,       \* the outer promise: [state, value]
  settleCalls,   \* number of resolve()/reject() invocations
  timer,         \* "armed" | "fired"
  browserOpens,  \* number of open(authUrl) invocations
  log,           \* requests delivered to the handler, in order of arrival
  posts,         \* token-exchange POSTs issued, in order
  tok,           \* one direct call of exchangeCodeForTokens or refreshAccessToken
  authUrl,       \* query parameters of the URL passed to open(), in order
  launch,        \* the browser launch: [state, seen]
  caller,        \* authenticate() of the integration awaiting the flow
  envFile,       \* the lines of the .env file (<<>> when there is no file)
  envCalls,      \* the calls of updateEnvFile made: [before, updates]
  sync,          \* one sync() of an OAuth integration
  other,         \* a second call of startOAuthFlow in the same process
  db             \* the database: _migrations rows and the run of runAllMigrations

\* What the flow of startOAuthFlow does not touch.
extVars == <<caller, envFile, envCalls, sync, other, db>>

\* What one call of startOAuthFlow owns.
flowVars ==
  <<config, server, closeCalls, promise, settleCalls, timer, browserOpens, log, posts, tok,
    authUrl, launch>>

vars ==
  <<config, server, closeCalls, promise, settleCalls, timer, browserOpens, log, posts, tok,
    authUrl, launch, extVars>>

\* ------------------------------------------------------------- helpers
DefaultPort == 8765

\* const port = config.callbackPort || 8765
port(c) == IF c.callbackPort # 0 THEN c.callbackPort ELSE DefaultPort

\* A string is the sequence of the non-empty pieces it is concatenated from.
Str(x) == IF x = "" THEN <<>> ELSE <<x>>

\* const redirectUri = `http://localhost:${port}/callback`
redirectUri(c) == <<"http://localhost:", ToString(port(c)), "/callback">>

\* a ?? b on string-or-null values.
NullishAsOr(a, b) == IF Truthy(a) THEN a ELSE b
Nullish(a, b) == IF a # Null THEN a ELSE b

\* Array.prototype.join
RECURSIVE Join(_, _)
Join(list, sep) ==
  IF Len(list) = 0 THEN <<>>
  ELSE IF Len(list) = 1 THEN Str(list[1])
  ELSE Str(list[1]) \o Str(sep) \o Join(Tail(list), sep)

\* URLSearchParams.has / get: the first entry of that name.
Has(q, k) == \E i \in 1..Len(q) : q[i].key = k
Get(q, k) == q[CHOOSE i \in 1..Len(q) : q[i].key = k /\ \A j \in 1..(i - 1) : q[j].key # k].value

\* URLSearchParams.set: the first entry of that name takes the value and
\* the other entries of that name are removed; without one, append.
SetAppend(q, k, v) == Append(q, [key |-> k, value |-> v])
Set(q, k, v) ==
  IF Has(q, k)
    THEN LET first == CHOOSE i \in 1..Len(q) : q[i].key = k /\ \A j \in 1..(i - 1) : q[j].key # k
             kept == {i \in 1..Len(q) : q[i].key # k \/ i = first}
             Nth(n) == CHOOSE i \in kept : Cardinality({j \in kept : j < i}) = n - 1
         IN [n \in 1..Cardinality(kept) |->
               IF Nth(n) = first THEN [key |-> k, value |-> v] ELSE q[Nth(n)]]
    ELSE Append(q, [key |-> k, value |-> v])

\* The for loop over Object.entries(config.additionalParams).
RECURSIVE SetAll(_, _)
SetAll(q, entries) ==
  IF Len(entries) = 0 THEN q
  ELSE SetAll(Set(q, entries[1].key, entries[1].value), Tail(entries))

\* The query of the authorization URL (authorizationUrl has no query).
BuildAuthUrl(c) ==
  LET q1 == Set(<<>>, "client_id", Str(c.clientId))
      q2 == Set(q1, "redirect_uri", redirectUri(c))
      q3 == Set(q2, "response_type", <<"code">>)
      q4 == IF Len(c.scopes) > 0
              THEN Set(q3, "scope", Join(c.scopes, Nullish(c.scopeSeparator, " ")))
              ELSE q3
  IN SetAll(q4, c.additionalParams)

\* A pending promise holds no value yet.
Pending == [state |-> "pending", value |-> [kind |-> "none"]]

\* resolve()/reject() of a promise settle it the first time and are
\* ignored afterwards.
SettleOverwrite(p, st, v) == [state |-> st, value |-> v]
Settle(p, st, v) == IF p.state = "pending" THEN [state |-> st, value |-> v] ELSE p

\* server.close(): stops accepting connections; nothing to stop when the
\* server is not listening.
CloseNoop(s) == s
Close(s) == IF s = "listening" THEN "closed" ELSE s

\* The errors the flow rejects with, named after the message they carry.
Err(kind, reason) == [kind |-> kind, reason |-> reason]

\* What exchangeCodeForTokens throws for an answer that is not 2xx: its own
\* error with the status and the body text, or whatever fetch threw.
ExchangeError(resp) ==
  IF resp.kind = "http_error"
    THEN [kind |-> "TokenExchangeError", reason |-> resp.text, status |-> resp.status]
    ELSE [kind |-> "FetchError", reason |-> resp.text, status |-> 0]

\* Which branch of the request handler a request takes.
BranchMissingIgnored(r) ==
  IF r.path # "/callback" THEN "not_found"
  ELSE IF Truthy(r.error) THEN "denied"
  ELSE IF ~Truthy(r.code) THEN "not_found"
  ELSE "exchange"
BranchCodeFirst(r) ==
  IF r.path # "/callback" THEN "not_found"
  ELSE IF Truthy(r.code) THEN "exchange"
  ELSE IF Truthy(r.error) THEN "denied"
  ELSE "missing_code"
BranchNoCodeCheck(r) ==
  IF r.path # "/callback" THEN "not_found"
  ELSE IF Truthy(r.error) THEN "denied"
  ELSE "exchange"
Branch(r) ==
  IF r.path # "/callback" THEN "not_found"
  ELSE IF Truthy(r.error) THEN "denied"
  ELSE IF ~Truthy(r.code) THEN "missing_code"
  ELSE "exchange"

\* Body of the token-exchange POST.
ExchangeBody(c, code, uri) ==
  [client_id |-> c.clientId, client_secret |-> c.clientSecret, code |-> code,
   grant_type |-> "authorization_code", redirect_uri |-> uri]

\* OAuthTokens built from a 2xx answer received at time now (Date.now(),
\* milliseconds).
ExchangeTokens(data, now) ==
  [accessToken |-> data.access_token, refreshToken |-> data.refresh_token,
   expiresIn |-> data.expires_in, tokenType |-> data.token_type, scope |-> data.scope,
   expiresAt |-> IF TruthyNum(data.expires_in) THEN now + data.expires_in * 1000 ELSE NoNum]

\* Body of the refresh POST.
RefreshBody(c, refreshToken) ==
  [client_id |-> c.clientId, client_secret |-> c.clientSecret,
   grant_type |-> "refresh_token", refresh_token |-> refreshToken]

\* OAuthTokens built by refreshAccessToken from a 2xx answer.
RefreshTokensNoFallback(data, refreshToken, now) ==
  [accessToken |-> data.access_token, refreshToken |-> data.refresh_token,
   expiresIn |-> data.expires_in, tokenType |-> data.token_type, scope |-> data.scope,
   expiresAt |-> IF TruthyNum(data.expires_in) THEN now + data.expires_in * 1000 ELSE NoNum]
RefreshTokens(data, refreshToken, now) ==
  [accessToken |-> data.access_token, refreshToken |-> Or(data.refresh_token, refreshToken),
   expiresIn |-> data.expires_in, tokenType |-> data.token_type, scope |-> data.scope,
   expiresAt |-> IF TruthyNum(data.expires_in) THEN now + data.expires_in * 1000 ELSE NoNum]

\* What refreshAccessToken throws for an answer that is not 2xx.
RefreshError(resp) ==
  IF resp.kind = "http_error"
    THEN [kind |-> "TokenRefreshError", reason |-> resp.text, status |-> resp.status]
    ELSE [kind |-> "FetchError", reason |-> resp.text, status |-> 0]

\* No direct call of a token-endpoint function has been made.
NoCall ==
  [fn |-> "none", pc |-> "idle", refreshToken |-> Null, posts |-> <<>>,
   answer |-> NoAnswer, now |-> 0, result |-> [kind |-> "none"]]

\* ------------------------------------------ what surrounds the flow
\* A line of the .env file is the sequence of its tokens: names, values,
\* "=", "#", and " " for one blank.  The file is the sequence of the pieces
\* content.split("\n") yields, so a file that ends with a newline ends with
\* an empty piece; <<>> is no file at all.
InitialEnvFile ==
  << <<"STRAVA_CLIENT_ID", "=", "id">>, <<"STRAVA_CLIENT_SECRET", "=", "secret">>, <<>> >>

\* line.startsWith(prefix)
StartsWith(line, prefix) ==
  Len(line) >= Len(prefix) /\ SubSeq(line, 1, Len(prefix)) = prefix

\* line.trim() === ""
Blank(line) == \A i \in 1..Len(line) : line[i] = " "

\* while (lines.length > 0 && lines[lines.length - 1].trim() === "") lines.pop()
RECURSIVE PopBlank(_)
PopBlank(lines) ==
  IF Len(lines) > 0 /\ Blank(lines[Len(lines)])
    THEN PopBlank(SubSeq(lines, 1, Len(lines) - 1))
    ELSE lines

\* updateEnvFile(updates): drop the lines that start with `key=` or `key =`
\* for a key of updates, drop the blank lines at the end, append `key=value`
\* for every entry of updates and write the lines joined by "\n" with a
\* final "\n".  updates is Object.entries(updates).
UpdateEnvFile(file, updates) ==
  LET Kept(line) ==
        ~\E i \in 1..Len(updates) :
           \/ StartsWith(line, <<updates[i].key, "=">>)
           \/ StartsWith(line, <<updates[i].key, " ", "=">>)
      lines == PopBlank(SelectSeq(file, Kept))
      added == [i \in 1..Len(updates) |-> <<updates[i].key, "=">> \o updates[i].value]
  IN Append(lines \o added, <<>>)

\* `${value}` of a string that may be undefined.
EnvValue(v) == IF v = Null THEN <<"undefined">> ELSE Str(v)

\* The envUpdates object authenticate() and ensureValidToken() build from
\* the tokens; expiresAt.toISOString() is the text of the timestamp.
EnvUpdates(tokens) ==
  <<[key |-> "STRAVA_ACCESS_TOKEN", value |-> EnvValue(tokens.accessToken)]>>
    \o (IF Truthy(tokens.refreshToken)
          THEN <<[key |-> "STRAVA_REFRESH_TOKEN", value |-> Str(tokens.refreshToken)]>>
          ELSE <<>>)
    \o (IF tokens.expiresAt # NoNum
          THEN <<[key |-> "STRAVA_TOKEN_EXPIRES_AT", value |-> <<ToString(tokens.expiresAt)>>]>>
          ELSE <<>>)

\* No sync() has been started.
NoSync ==
  [pc |-> "idle",
   env |-> [accessToken |-> Null, refreshToken |-> Null, expiresAt |-> NoNum,
            clientId |-> Null, clientSecret |-> Null],
   now |-> 0, refreshes |-> <<>>, answer |-> NoAnswer, token |-> Null, calls |-> <<>>]

\* No second flow has been started.
NoOther ==
  [server |-> "none", callbackPort |-> 0, promise |-> Pending, settleCalls |-> 0,
   timer |-> "none", browserOpens |-> 0, closeCalls |-> 0]

\* A database file that has just been created: _migrations is empty.
EmptyDb ==
  [rows |-> <<>>, executed |-> <<>>, pc |-> "idle", i |-> 0, j |-> 0, applied |-> {},
   runs |-> 0, completed |-> 0]

\* ---------------------------------------------------------------- Init
\* State when the executor of the outer promise has returned: the server
\* is created and asked to listen, the error handler is registered and
\* the timer is armed.
FlowInit(configs) ==
  /\ config \in configs
  /\ server = "binding"
  /\ closeCalls = 0
  /\ promise = Pending
  /\ settleCalls = 0
  /\ timer = "armed"
  /\ browserOpens = 0
  /\ log = <<>>
  /\ posts = <<>>
  /\ tok = NoCall
  /\ authUrl = <<>>
  /\ launch = [state |-> "none", seen |-> 0]

Init ==
  /\ FlowInit(Configs)
  /\ caller = "awaiting"
  /\ envFile = InitialEnvFile
  /\ envCalls = <<>>
  /\ sync = NoSync
  /\ other = NoOther
  /\ db = EmptyDb

\* ------------------------------------------------------------- actions
\* The listen callback: the bind succeeded; build the URL, open the browser.
\* The promise open() returns is dropped.
ListeningNoOpen ==
  /\ server = "binding"
  /\ server' = "listening"
  /\ authUrl' = BuildAuthUrl(config)
  /\ UNCHANGED <<extVars, launch, browserOpens, config, tok, closeCalls, promise, settleCalls,
                 timer, log, posts>>
Listening ==
  /\ server = "binding"
  /\ server' = "listening"
  /\ authUrl' = BuildAuthUrl(config)
  /\ browserOpens' = browserOpens + 1
  /\ launch' = [state |-> "started", seen |-> 0]
  /\ UNCHANGED <<extVars, config, tok, closeCalls, promise, settleCalls, timer, log, posts>>

\* The "error" handler: the bind failed.
ServerErrorOpensBrowser ==
  /\ server = "binding"
  /\ server' = "failed"
  /\ promise' = Settle(promise, "rejected", Err("ListenerStartupError", "EADDRINUSE"))
  /\ settleCalls' = settleCalls + 1
  /\ browserOpens' = browserOpens + 1
  /\ UNCHANGED <<extVars, launch, config, tok, authUrl, closeCalls, timer, log, posts>>
ServerError ==
  /\ server = "binding"
  /\ server' = "failed"
  /\ promise' = Settle(promise, "rejected", Err("ListenerStartupError", "EADDRINUSE"))
  /\ settleCalls' = settleCalls + 1
  /\ UNCHANGED <<extVars, launch, config, tok, authUrl, closeCalls, timer, browserOpens, log, posts>>

\* The request handler up to its first suspension point (or its return).
Request(r) ==
  /\ server = "listening"
  /\ Len(log) < MaxRequests
  /\ LET b == Branch(r)
         i == Len(log) + 1
     IN
       \/ /\ b = "not_found"
          /\ log' = Append(log, [req |-> r, state |-> "done", http |-> 404, answer |-> NoAnswer])
          /\ UNCHANGED <<server, closeCalls, promise, settleCalls, posts>>
       \/ /\ b = "denied"
          /\ log' = Append(log, [req |-> r, state |-> "done", http |-> 400, answer |-> NoAnswer])
          /\ server' = Close(server)
          /\ closeCalls' = closeCalls + 1
          /\ promise' = Settle(promise, "rejected",
                               Err("AuthorizationDeniedError", Or(r.error_description, r.error)))
          /\ settleCalls' = settleCalls + 1
          /\ UNCHANGED posts
       \/ /\ b = "missing_code"
          /\ log' = Append(log, [req |-> r, state |-> "done", http |-> 400, answer |-> NoAnswer])
          /\ server' = Close(server)
          /\ closeCalls' = closeCalls + 1
          /\ promise' = Settle(promise, "rejected", Err("MissingCodeError", Null))
          /\ settleCalls' = settleCalls + 1
          /\ UNCHANGED posts
       \/ /\ b = "exchange"
          /\ log' = Append(log, [req |-> r, state |-> "awaiting", http |-> 0, answer |-> NoAnswer])
          /\ posts' = Append(posts, [req |-> i,
                                     body |-> ExchangeBody(config, r.code, redirectUri(config))])
          /\ UNCHANGED <<server, closeCalls, promise, settleCalls>>
  /\ UNCHANGED <<extVars, launch, config, tok, authUrl, timer, browserOpens>>

\* The token endpoint answers the POST of handler i; the handler resumes
\* after its await and runs to its end.
TokenResponse(i, resp, now) ==
  /\ i \in 1..Len(log)
  /\ log[i].state = "awaiting"
  /\ IF resp.kind = "ok"
       THEN /\ log' = [log EXCEPT ![i] = [@ EXCEPT !.state = "done", !.http = 200,
                                                   !.answer = resp]]
            /\ promise' = Settle(promise, "resolved", ExchangeTokens(resp.data, now))
       ELSE /\ log' = [log EXCEPT ![i] = [@ EXCEPT !.state = "done", !.http = 500,
                                                   !.answer = resp]]
            /\ promise' = Settle(promise, "rejected", ExchangeError(resp))
  /\ server' = Close(server)
  /\ closeCalls' = closeCalls + 1
  /\ settleCalls' = settleCalls + 1
  /\ UNCHANGED <<extVars, launch, config, tok, authUrl, timer, browserOpens, posts>>

\* The setTimeout callback.  The timer is never cleared.
TimeoutNoReject ==
  /\ timer = "armed"
  /\ server # "binding"
  /\ timer' = "fired"
  /\ server' = Close(server)
  /\ closeCalls' = closeCalls + 1
  /\ UNCHANGED <<extVars, launch, config, tok, authUrl, promise, settleCalls, browserOpens, log, posts>>
Timeout ==
  /\ timer = "armed"
  /\ server # "binding"
  /\ timer' = "fired"
  /\ server' = Close(server)
  /\ closeCalls' = closeCalls + 1
  /\ promise' = Settle(promise, "rejected", Err("FlowTimeoutError", Null))
  /\ settleCalls' = settleCalls + 1
  /\ UNCHANGED <<extVars, launch, config, tok, authUrl, browserOpens, log, posts>>

Next ==
  \/ Listening
  \/ ServerError
  \/ \E r \in Requests : Request(r)
  \/ \E i \in 1..MaxRequests, resp \in TokenResponses, now \in Times : TokenResponse(i, resp, now)
  \/ Timeout

Spec == Init /\ [][Next]_vars

\* The event loop delivers the listen outcome and fires the timer.
FairSpec == Spec /\ WF_vars(Listening \/ ServerError) /\ WF_vars(Timeout)

\* ---------------------------------------------- requests of any method
\* The handler reads req.url only, so a request of any method takes the
\* branch its path and query select.
MethodNext ==
  \/ Next
  \/ \E r \in NonGetRequests : Request(r)

MethodSpec == Init /\ [][MethodNext]_vars

\* ------------------------------------------- the browser does not open
\* The launch started by open() fails (no browser, no launcher): the promise
\* open() returned rejects.  Nothing awaits it and nothing catches it, so no
\* code of the flow runs; seen is the number of requests handled so far.
OpenRejectedSettles ==
  /\ launch.state = "started"
  /\ launch' = [state |-> "failed", seen |-> Len(log)]
  /\ server' = Close(server)
  /\ closeCalls' = closeCalls + 1
  /\ promise' = Settle(promise, "rejected", Err("BrowserLaunchError", Null))
  /\ settleCalls' = settleCalls + 1
  /\ UNCHANGED <<extVars, config, tok, authUrl, timer, browserOpens, log, posts>>
OpenRejected ==
  /\ launch.state = "started"
  /\ launch' = [state |-> "failed", seen |-> Len(log)]
  /\ UNCHANGED <<extVars, config, server, closeCalls, promise, settleCalls, timer, browserOpens,
                 log, posts, tok, authUrl>>

LaunchNext ==
  \/ Next
  \/ OpenRejected

\* The flow with a browser launch that may fail.
LaunchSpec == Init /\ [][LaunchNext]_vars

\* ------------------------------------------ the integration around it
\* authenticate() of the Strava integration resumes after its await of
\* startOAuthFlow: it saves the tokens to .env, or the rejection propagates.
\* (The Google Calendar integration is the same code with GOOGLE_ names.)
AuthenticateResumeSavesAlways ==
  /\ caller = "awaiting"
  /\ promise.state # "pending"
  /\ caller' = IF promise.state = "resolved" THEN "returned" ELSE "thrown"
  /\ LET updates == <<[key |-> "STRAVA_ACCESS_TOKEN", value |-> <<"undefined">>]>>
     IN /\ envFile' = UpdateEnvFile(envFile, updates)
        /\ envCalls' = Append(envCalls, [before |-> envFile, updates |-> updates])
  /\ UNCHANGED <<flowVars, sync, other, db>>
AuthenticateResume ==
  /\ caller = "awaiting"
  /\ promise.state # "pending"
  /\ IF promise.state = "resolved"
       THEN LET updates == EnvUpdates(promise.value)
            IN /\ caller' = "returned"
               /\ envFile' = UpdateEnvFile(envFile, updates)
               /\ envCalls' = Append(envCalls, [before |-> envFile, updates |-> updates])
       ELSE /\ caller' = "thrown"
            /\ UNCHANGED <<envFile, envCalls>>
  /\ UNCHANGED <<flowVars, sync, other, db>>

\* Number of API requests one sync() makes (the activities are paged).
MaxApiCalls == 2

\* process.env as sync() finds it; expiresAt is the time STRAVA_TOKEN_EXPIRES_AT
\* parses to, NoNum when the variable is not set.
ProcessEnvs ==
  [accessToken : {Null, "A0"}, refreshToken : {Null, "R0"}, expiresAt : {NoNum, 500, 5000},
   clientId : {"id"}, clientSecret : {"secret"}]
SyncTimes == {1000, 6000}

\* isConfigured()
IsConfigured(e) == Truthy(e.clientId) /\ Truthy(e.clientSecret) /\ Truthy(e.accessToken)

\* The test of ensureValidToken(): the expiry is set and has passed and
\* there is a refresh token, a client id and a client secret.
MustRefresh(e, now) ==
  /\ e.expiresAt # NoNum
  /\ e.expiresAt <= now
  /\ Truthy(e.refreshToken)
  /\ Truthy(e.clientId)
  /\ Truthy(e.clientSecret)

\* syncIntegration() calls sync(), which runs ensureValidToken() up to its
\* await of refreshAccessToken or to its return.
SyncStart(e, now) ==
  /\ sync.pc = "idle"
  /\ sync' =
       IF ~IsConfigured(e)
         THEN [sync EXCEPT !.pc = "not_configured", !.env = e, !.now = now]
       ELSE IF MustRefresh(e, now)
         THEN [sync EXCEPT !.pc = "refreshing", !.env = e, !.now = now,
                           !.refreshes = <<RefreshBody(e, e.refreshToken)>>]
       ELSE IF ~Truthy(e.accessToken)
         THEN [sync EXCEPT !.pc = "thrown", !.env = e, !.now = now]
       ELSE [sync EXCEPT !.pc = "calling", !.env = e, !.now = now, !.token = e.accessToken]
  /\ UNCHANGED <<flowVars, caller, envFile, envCalls, other, db>>

\* The token endpoint answers the refresh: ensureValidToken() saves the new
\* tokens to .env and returns the new access token, or the error propagates.
SyncRefreshAnswer(resp, now) ==
  /\ sync.pc = "refreshing"
  /\ IF resp.kind = "ok"
       THEN LET tokens == RefreshTokens(resp.data, sync.env.refreshToken, now)
                updates == EnvUpdates(tokens)
            IN /\ sync' = [sync EXCEPT !.pc = "calling", !.answer = resp,
                                       !.token = tokens.accessToken]
               /\ envFile' = UpdateEnvFile(envFile, updates)
               /\ envCalls' = Append(envCalls, [before |-> envFile, updates |-> updates])
       ELSE /\ sync' = [sync EXCEPT !.pc = "thrown", !.answer = resp]
            /\ UNCHANGED <<envFile, envCalls>>
  /\ UNCHANGED <<flowVars, caller, other, db>>

\* apiRequest(endpoint, accessToken): a request with Authorization: Bearer.
SyncApiRequest ==
  /\ sync.pc = "calling"
  /\ Len(sync.calls) < MaxApiCalls
  /\ sync' = [sync EXCEPT !.calls = Append(@, [token |-> sync.token, at |-> sync.now])]
  /\ UNCHANGED <<flowVars, caller, envFile, envCalls, other, db>>

SyncNext ==
  \/ \E e \in ProcessEnvs, now \in SyncTimes : SyncStart(e, now)
  \/ \E resp \in TokenResponses, now \in Times : SyncRefreshAnswer(resp, now)
  \/ SyncApiRequest

\* One sync() of the Strava integration.
SyncSpec == Init /\ [][SyncNext]_vars

\* One process runs one command: `auth` (the flow and authenticate()
\* around it) or `sync`, which starts where no flow has been started.
StoreNext ==
  \/ sync.pc = "idle" /\ Next
  \/ sync.pc = "idle" /\ AuthenticateResume
  \/ server = "binding" /\ SyncNext

StoreSpec == Init /\ [][StoreNext]_vars

\* ------------------------------------------------- the .env file alone
\* Number of lines of the .env file before the first call.
MaxLines == 2
\* Number of calls of updateEnvFile.
MaxEnvCalls == 2

\* Lines a .env file holds: entries of A and of B as the loader accepts
\* them, a comment, an empty line.
EnvLines ==
  {<<"A", "=", "1">>, <<"A", " ", "=", "1">>, <<" ", "A", "=", "1">>, <<"B", "=", "1">>,
   <<"#", "A", "=", "1">>, <<>>}
EnvFiles == UNION {[1..n -> EnvLines] : n \in 0..MaxLines}

\* Object.entries(updates): no key twice, any order.
EnvEntries == [key : {"A", "B"}, value : {<<"2">>, <<"3">>}]
EnvUpdateLists ==
  {u \in UNION {[1..n -> EnvEntries] : n \in 0..2} :
     \A i, j \in 1..Len(u) : u[i].key = u[j].key => i = j}

\* line.trim()
RECURSIVE Trim(_)
Trim(line) ==
  IF Len(line) > 0 /\ line[1] = " " THEN Trim(Tail(line))
  ELSE IF Len(line) > 0 /\ line[Len(line)] = " " THEN Trim(SubSeq(line, 1, Len(line) - 1))
  ELSE line

\* trimmed.indexOf("="), counted from 1; 0 when there is none.
IndexOfEq(line) ==
  IF \E i \in 1..Len(line) : line[i] = "="
    THEN CHOOSE i \in 1..Len(line) : line[i] = "=" /\ \A j \in 1..(i - 1) : line[j] # "="
    ELSE 0

\* The entry the loader of the program reads from a line of .env: none for
\* an empty line, a comment, or a line without a name before its "=".
NoEntry == [key |-> <<>>, value |-> <<>>]
EntryOf(line) ==
  LET trimmed == Trim(line)
      eqIndex == IndexOfEq(trimmed)
  IN IF Len(trimmed) = 0 THEN NoEntry
     ELSE IF trimmed[1] = "#" THEN NoEntry
     ELSE IF eqIndex <= 1 THEN NoEntry
     ELSE [key |-> Trim(SubSeq(trimmed, 1, eqIndex - 1)),
           value |-> Trim(SubSeq(trimmed, eqIndex + 1, Len(trimmed)))]

\* The entries of a file, in the order of their lines.
Entries(file) ==
  LET IsEntry(e) == e # NoEntry
  IN SelectSeq([n \in 1..Len(file) |-> EntryOf(file[n])], IsEntry)

\* One call updateEnvFile(updates).
EnvUpdate(updates) ==
  /\ Len(envCalls) < MaxEnvCalls
  /\ envFile' = UpdateEnvFile(envFile, updates)
  /\ envCalls' = Append(envCalls, [before |-> envFile, updates |-> updates])
  /\ UNCHANGED <<flowVars, caller, sync, other, db>>

EnvInit ==
  /\ FlowInit(Configs)
  /\ caller = "awaiting"
  /\ envFile \in EnvFiles
  /\ envCalls = <<>>
  /\ sync = NoSync
  /\ other = NoOther
  /\ db = EmptyDb

EnvNext == \E updates \in EnvUpdateLists : EnvUpdate(updates)

\* Calls of updateEnvFile on every prior file.
EnvSpec == EnvInit /\ [][EnvNext]_vars

\* ------------------------------------------------------- the migrations
\* Number of runs of runAllMigrations on one database file.
MaxRuns == 2

\* integrationRegistry.getAll(): the integrations in the order of their
\* registration, and the same for the release without Google Calendar.
Registry == <<"hevy", "lunchmoney", "strava", "google-calendar">>
OlderRegistry == <<"lunchmoney", "strava", "hevy">>

\* getMigrations() of each integration: version and name, in order.
Migrations(integration) ==
  IF integration = "hevy"
    THEN <<[version |-> 200, name |-> "create_workouts"],
           [version |-> 201, name |-> "create_exercises"],
           [version |-> 202, name |-> "create_sets"],
           [version |-> 205, name |-> "recreate_tables_correct_schema"]>>
  ELSE IF integration = "lunchmoney"
    THEN <<[version |-> 1, name |-> "create_categories"],
           [version |-> 2, name |-> "create_transactions"],
           [version |-> 3, name |-> "create_assets"],
           [version |-> 4, name |-> "create_plaid_accounts"],
           [version |-> 5, name |-> "create_recurring"]>>
  ELSE IF integration = "strava"
    THEN <<[version |-> 100, name |-> "create_athlete"],
           [version |-> 101, name |-> "create_activities"]>>
  ELSE <<[version |-> 200, name |-> "create_calendars"],
         [version |-> 201, name |-> "create_events"],
         [version |-> 202, name |-> "create_attendees"]>>

\* The row INSERT INTO _migrations (version, name) writes.
MigrationRow(integration, m) ==
  [version |-> m.version, name |-> <<integration, ":", m.name>>]

\* SELECT version FROM _migrations WHERE name LIKE `${integration}:%`
AppliedVersions(rows, integration) ==
  {rows[n].version : n \in {k \in 1..Len(rows) : StartsWith(rows[k].name, <<integration, ":">>)}}

\* version INTEGER PRIMARY KEY: no two rows of one version.
PrimaryKeyTaken(rows, version) == \E n \in 1..Len(rows) : rows[n].version = version

\* The _migrations rows a complete run over a registry leaves in an empty
\* database when no INSERT fails.
RECURSIVE RowsOf(_)
RowsOf(registry) ==
  IF Len(registry) = 0 THEN <<>>
  ELSE [j \in 1..Len(Migrations(registry[1])) |->
          MigrationRow(registry[1], Migrations(registry[1])[j])] \o RowsOf(Tail(registry))

\* The database files a run can find: a new one, and the one the release
\* without Google Calendar has migrated.
InitialDbs == {EmptyDb, [EmptyDb EXCEPT !.rows = RowsOf(OlderRegistry)]}

\* runAllMigrations(db) is called: the loop starts at the first integration.
RunAllMigrations ==
  /\ db.pc \in {"idle", "thrown"}
  /\ db.runs < MaxRuns
  /\ db' = [db EXCEPT !.pc = "running", !.i = 1, !.j = 0, !.runs = @ + 1, !.applied = {}]
  /\ UNCHANGED <<flowVars, caller, envFile, envCalls, sync, other>>

\* db.runMigrations(integration.name, migrations) reads the versions
\* recorded for the integration.
RunMigrations ==
  /\ db.pc = "running"
  /\ db.j = 0
  /\ db' = [db EXCEPT !.j = 1, !.applied = AppliedVersions(db.rows, Registry[db.i])]
  /\ UNCHANGED <<flowVars, caller, envFile, envCalls, sync, other>>

\* Where the two loops stand after migration j of integration i.
AfterMigration(d) ==
  IF d.j < Len(Migrations(Registry[d.i])) THEN [d EXCEPT !.j = @ + 1]
  ELSE IF d.i < Len(Registry) THEN [d EXCEPT !.i = @ + 1, !.j = 0]
  ELSE [d EXCEPT !.pc = "idle", !.completed = @ + 1]

\* One turn of the loop over the migrations: a version that is not recorded
\* for the integration is executed and then recorded; the INSERT throws when
\* the version is already a key of _migrations.
ApplyMigration ==
  /\ db.pc = "running"
  /\ db.j >= 1
  /\ LET integration == Registry[db.i]
         m == Migrations(integration)[db.j]
         step == [integration |-> integration, version |-> m.version, run |-> db.runs]
     IN db' =
          IF m.version \in db.applied THEN AfterMigration(db)
          ELSE IF PrimaryKeyTaken(db.rows, m.version)
            THEN [db EXCEPT !.pc = "thrown", !.executed = Append(@, step)]
          ELSE AfterMigration([db EXCEPT !.executed = Append(@, step),
                                         !.rows = Append(@, MigrationRow(integration, m))])
  /\ UNCHANGED <<flowVars, caller, envFile, envCalls, sync, other>>

MigInit ==
  /\ FlowInit(Configs)
  /\ caller = "awaiting"
  /\ envFile = InitialEnvFile
  /\ envCalls = <<>>
  /\ sync = NoSync
  /\ other = NoOther
  /\ db \in InitialDbs

MigNext ==
  \/ RunAllMigrations
  \/ RunMigrations
  \/ ApplyMigration

\* Runs of runAllMigrations on one database file.
MigSpec == MigInit /\ [][MigNext]_vars

\* ------------------------------------ the token-endpoint functions alone
\* exchangeCodeForTokens(config, code, redirectUri) up to its await of fetch.
TokExchangeCall(code) ==
  /\ tok.pc = "idle"
  /\ tok' = [tok EXCEPT !.fn = "exchange", !.pc = "awaiting",
                        !.posts = <<ExchangeBody(config, code, redirectUri(config))>>]
  /\ UNCHANGED <<extVars, launch, config, server, closeCalls, promise, settleCalls, timer, browserOpens,
                 log, posts, authUrl>>

\* refreshAccessToken(tokenUrl, clientId, clientSecret, refreshToken) up to
\* its await of fetch.
TokRefreshCall(refreshToken) ==
  /\ tok.pc = "idle"
  /\ tok' = [tok EXCEPT !.fn = "refresh", !.pc = "awaiting", !.refreshToken = refreshToken,
                        !.posts = <<RefreshBody(config, refreshToken)>>]
  /\ UNCHANGED <<extVars, launch, config, server, closeCalls, promise, settleCalls, timer, browserOpens,
                 log, posts, authUrl>>

\* The answer of the token endpoint: the function returns tokens or throws.
TokAnswerRetry(resp, now) ==
  /\ tok.pc = "awaiting"
  /\ IF resp.kind = "ok"
       THEN tok' = [tok EXCEPT !.pc = "returned", !.answer = resp, !.now = now,
                               !.result = IF tok.fn = "exchange"
                                            THEN ExchangeTokens(resp.data, now)
                                            ELSE RefreshTokens(resp.data, tok.refreshToken, now)]
       ELSE /\ Len(tok.posts) < 3
            /\ tok' = [tok EXCEPT !.posts = Append(@, @[1])]
  /\ UNCHANGED <<extVars, launch, config, server, closeCalls, promise, settleCalls, timer, browserOpens,
                 log, posts, authUrl>>
TokAnswer(resp, now) ==
  /\ tok.pc = "awaiting"
  /\ IF resp.kind = "ok"
       THEN tok' = [tok EXCEPT !.pc = "returned", !.answer = resp, !.now = now,
                               !.result = IF tok.fn = "exchange"
                                            THEN ExchangeTokens(resp.data, now)
                                            ELSE RefreshTokens(resp.data, tok.refreshToken, now)]
       ELSE tok' = [tok EXCEPT !.pc = "thrown", !.answer = resp, !.now = now,
                               !.result = IF tok.fn = "exchange"
                                            THEN ExchangeError(resp)
                                            ELSE RefreshError(resp)]
  /\ UNCHANGED <<extVars, launch, config, server, closeCalls, promise, settleCalls, timer, browserOpens,
                 log, posts, authUrl>>

TokNext ==
  \/ \E code \in Codes \ {Null, ""} : TokExchangeCall(code)
  \/ \E refreshToken \in RefreshInputs : TokRefreshCall(refreshToken)
  \/ \E resp \in TokenAnswers, now \in AnswerTimes : TokAnswer(resp, now)

\* One call of exchangeCodeForTokens or of refreshAccessToken on its own,
\* for every answer of the token endpoint.
TokenSpec == Init /\ [][TokNext]_vars

\* --------------------------------------------- the URL of every config
\* A code-bearing callback, as the provider sends it after consent.
CodeRequest ==
  [method |-> "GET", path |-> "/callback", code |-> "c1", error |-> Null,
   error_description |-> Null]

UrlInit ==
  /\ FlowInit(UrlConfigs)
  /\ caller = "awaiting"
  /\ envFile = InitialEnvFile
  /\ envCalls = <<>>
  /\ sync = NoSync
  /\ other = NoOther
  /\ db = EmptyDb

UrlNext ==
  \/ Listening
  \/ Request(CodeRequest)

\* The flow up to its token-exchange POST, for every config.
UrlSpec == UrlInit /\ [][UrlNext]_vars

\* ----------------------------------------------- two flows, one process
\* A second call of startOAuthFlow while the first is under way, followed up
\* to the outcome of its listen() and to its timer.  A port is held by the
\* flow whose server is listening on it; listen() on a held port fails.
OtherStart(p) ==
  /\ other.server = "none"
  /\ other' = [other EXCEPT !.server = "binding", !.callbackPort = p, !.timer = "armed"]
  /\ UNCHANGED <<flowVars, caller, envFile, envCalls, sync, db>>

\* The first flow holds the port the second asks for, and the reverse.
HeldByFirst == server = "listening" /\ port(config) = port(other)
HeldByOther == other.server = "listening" /\ port(config) = port(other)

\* The listen callback of the second flow.
OtherListening ==
  /\ other.server = "binding"
  /\ ~HeldByFirst
  /\ other' = [other EXCEPT !.server = "listening", !.browserOpens = @ + 1]
  /\ UNCHANGED <<flowVars, caller, envFile, envCalls, sync, db>>

\* The "error" handler of the second flow: EADDRINUSE.
OtherServerErrorOpensBrowser ==
  /\ other.server = "binding"
  /\ HeldByFirst
  /\ other' = [other EXCEPT !.server = "failed", !.settleCalls = @ + 1, !.browserOpens = @ + 1,
                            !.promise = Settle(@, "rejected",
                                               Err("ListenerStartupError", "EADDRINUSE"))]
  /\ UNCHANGED <<flowVars, caller, envFile, envCalls, sync, db>>
OtherServerError ==
  /\ other.server = "binding"
  /\ HeldByFirst
  /\ other' = [other EXCEPT !.server = "failed", !.settleCalls = @ + 1,
                            !.promise = Settle(@, "rejected",
                                               Err("ListenerStartupError", "EADDRINUSE"))]
  /\ UNCHANGED <<flowVars, caller, envFile, envCalls, sync, db>>

\* The setTimeout callback of the second flow.
OtherTimeout ==
  /\ other.timer = "armed"
  /\ other.server \in {"listening", "failed", "closed"}
  /\ other' = [other EXCEPT !.timer = "fired", !.server = Close(@), !.closeCalls = @ + 1,
                            !.settleCalls = @ + 1,
                            !.promise = Settle(@, "rejected", Err("FlowTimeoutError", Null))]
  /\ UNCHANGED <<flowVars, caller, envFile, envCalls, sync, db>>

PortNext ==
  \/ ~HeldByOther /\ Listening
  \/ ServerError
  \/ Request(CodeRequest)
  \/ \E i \in 1..MaxRequests, resp \in TokenResponses, now \in Times : TokenResponse(i, resp, now)
  \/ Timeout
  \/ \E p \in Ports : OtherStart(p)
  \/ OtherListening
  \/ OtherServerError
  \/ OtherTimeout

\* Two calls of startOAuthFlow in one process.
PortSpec == Init /\ [][PortNext]_vars

\* ------------------------------------------------------ claim vocabulary
Settled == promise.state # "pending"
Rejected(kind) == promise.state = "rejected" /\ promise.value.kind = kind
\* Indices of the requests that went to /callback.
CallbackIdx == {i \in 1..Len(log) : log[i].req.path = "/callback"}
FirstCallback == CHOOSE i \in CallbackIdx : \A j \in CallbackIdx : i <= j
Awaiting == {i \in 1..Len(log) : log[i].state = "awaiting"}
PostsOf(i) == {k \in 1..Len(posts) : posts[k].req = i}

\* C1: within one flow at most one token-exchange POST is ever issued,
\* whatever requests reach /callback and however they interleave.
C1_AtMostOneExchange == Len(posts) <= 1

\* C2: a second or later request to /callback never changes the outcome of
\* the flow: no step taken by its handler (its arrival, or the answer to its
\* token exchange) changes the outer promise.
C2_LaterRequestsIgnored ==
  [][\A i \in 1..Len(log') :
       (/\ \E j \in 1..(i - 1) : log'[j].req.path = "/callback"
        /\ log'[i].req.path = "/callback"
        /\ \/ i > Len(log)
           \/ log[i].state = "awaiting" /\ log'[i].state = "done")
       => promise' = promise]_vars

\* C3: the outer promise settles exactly once: once it is resolved or
\* rejected no later event changes its state or its value.
C3_SettlesOnce == [][promise.state # "pending" => promise' = promise]_vars
\* A settled promise on which resolve()/reject() was called again.
C3_Witness == Settled /\ settleCalls >= 2

\* C4: whenever the outer promise is settled the listener is not accepting
\* connections.
C4_ClosedWhenSettled == Settled => server # "listening"
C4_Witness == promise.state = "resolved" /\ server = "closed" /\ closeCalls >= 1

\* C5: the listener close operation is performed exactly once per call:
\* never more than once, and once by the time the flow has nothing left to
\* run (timer fired, no handler suspended).
C5_CloseExactlyOnce ==
  /\ closeCalls <= 1
  /\ (timer = "fired" /\ Awaiting = {}) => closeCalls = 1

\* C6: the flow rejects with FlowTimeoutError only if no request has arrived
\* at /callback; after a code-bearing callback it ends with tokens or with
\* TokenExchangeError.
C6_TimeoutOnlyWithoutCallback == Rejected("FlowTimeoutError") => CallbackIdx = {}

\* C7: every call eventually settles; for a flow whose listener bound, if
\* the deadline passes with no request to /callback the call is rejected
\* with FlowTimeoutError, and once the deadline has passed the listener
\* never accepts connections again.
C7_EventuallySettles ==
  /\ <>Settled
  /\ []((timer = "fired" /\ server # "failed" /\ CallbackIdx = {})
          => Rejected("FlowTimeoutError"))
  /\ [](timer = "fired" => [](server # "listening"))
C7_Witness ==
  timer = "fired" /\ server = "closed" /\ CallbackIdx = {} /\ Rejected("FlowTimeoutError")

\* C8: every token-exchange POST belongs to a request already received at
\* /callback that carried a non-empty code and no error, and the POST sends
\* exactly that code.
C8_ExchangeOnlyForCode ==
  \A k \in 1..Len(posts) :
    /\ posts[k].req \in 1..Len(log)
    /\ LET r == log[posts[k].req].req
       IN /\ r.path = "/callback"
          /\ Truthy(r.code)
          /\ ~Truthy(r.error)
          /\ posts[k].body.code = r.code
\* An exchange issued after a request that carried no code.
C8_Witness ==
  /\ Len(posts) = 1
  /\ posts[1].req = 2
  /\ log[1].req.path # "/callback"

\* C9: when the bind fails the flow is rejected with ListenerStartupError in
\* the same step and the browser is never opened, then or later.
C9_BindFailure ==
  server = "failed" => Rejected("ListenerStartupError") /\ browserOpens = 0
C9_Witness == server = "failed" /\ timer = "fired" /\ Rejected("ListenerStartupError")

\* C10 as stated: when the first request to /callback carries an error
\* parameter the flow is rejected with AuthorizationDeniedError whose reason
\* is error_description when present and otherwise the error value, and no
\* exchange is issued for that request.
C10_Original ==
  CallbackIdx # {} =>
    LET r == log[FirstCallback].req
    IN r.error # Null =>
         /\ Rejected("AuthorizationDeniedError")
         /\ promise.value.reason =
              (IF r.error_description # Null THEN r.error_description ELSE r.error)
         /\ PostsOf(FirstCallback) = {}

\* C10 amended: when the first request to /callback carries a non-empty
\* error parameter the flow is rejected with AuthorizationDeniedError whose
\* reason is error_description when present and non-empty and otherwise the
\* error value, and no exchange is issued for that request.
C10_DeniedOnError ==
  CallbackIdx # {} =>
    LET r == log[FirstCallback].req
    IN Truthy(r.error) =>
         /\ Rejected("AuthorizationDeniedError")
         /\ promise.value.reason =
              (IF Truthy(r.error_description) THEN r.error_description ELSE r.error)
         /\ PostsOf(FirstCallback) = {}
C10_Witness ==
  /\ CallbackIdx # {}
  /\ log[FirstCallback].req.error = "access_denied"
  /\ log[FirstCallback].req.error_description = ""
  /\ log[FirstCallback].req.code = "c1"
  /\ Rejected("AuthorizationDeniedError")

\* C11: when the first request to /callback carries neither a code nor an
\* error parameter the flow is rejected with MissingCodeError and no
\* token-exchange POST is issued.
C11_MissingCode ==
  CallbackIdx # {} =>
    LET r == log[FirstCallback].req
    IN (r.code = Null /\ r.error = Null) =>
         Rejected("MissingCodeError") /\ posts = <<>>
\* A bare /callback request, after a request to another path.
C11_Witness ==
  /\ CallbackIdx # {}
  /\ FirstCallback = 2
  /\ log[2].req.code = Null
  /\ log[2].req.error = Null
  /\ Rejected("MissingCodeError")

\* Handlers whose token exchange has been answered, by kind of answer.
Answered(kind) == {i \in 1..Len(log) : log[i].state = "done" /\ log[i].answer.kind = kind}

\* C12: when the token endpoint answers a code exchange with a non-2xx
\* status the flow is rejected with TokenExchangeError carrying that status
\* and body, and is not resolved with tokens.
C12_NonOkRejects ==
  \A i \in Answered("http_error") :
    /\ Rejected("TokenExchangeError")
    /\ promise.value.status = log[i].answer.status
    /\ promise.value.reason = log[i].answer.text

\* C13: when a code-bearing callback is followed by a 2xx token answer the
\* flow is resolved with tokens whose accessToken, refreshToken, expiresIn,
\* tokenType and scope are the answer's access_token, refresh_token,
\* expires_in, token_type and scope.
C13_ResolvesWithAnswer ==
  \A i \in Answered("ok") :
    /\ promise.state = "resolved"
    /\ promise.value.accessToken = log[i].answer.data.access_token
    /\ promise.value.refreshToken = log[i].answer.data.refresh_token
    /\ promise.value.expiresIn = log[i].answer.data.expires_in
    /\ promise.value.tokenType = log[i].answer.data.token_type
    /\ promise.value.scope = log[i].answer.data.scope

\* C14: for every 2xx answer handled by exchangeCodeForTokens or by
\* refreshAccessToken, expiresAt is set exactly when expires_in is present
\* in the answer (for every value, 0 included), and then is the time the
\* answer was received plus expires_in seconds.
C14_ExpiresAtIffPresent ==
  tok.pc = "returned" =>
    LET d == tok.answer.data
    IN /\ (tok.result.expiresAt # NoNum) <=> (d.expires_in # NoNum)
       /\ d.expires_in # NoNum => tok.result.expiresAt = tok.now + d.expires_in * 1000

\* C15: every tokens value the two functions return has a non-empty
\* accessToken.
C15_AccessTokenNonEmpty == tok.pc = "returned" => Truthy(tok.result.accessToken)

\* C16: refreshAccessToken returns the answer's refresh_token when the
\* answer has one, the input refresh token when the answer omits it, and
\* never an empty refreshToken when the input refresh token is non-empty.
C16_RefreshTokenFallback ==
  (tok.fn = "refresh" /\ tok.pc = "returned") =>
    LET d == tok.answer.data
    IN /\ Truthy(d.refresh_token) => tok.result.refreshToken = d.refresh_token
       /\ d.refresh_token = Null => tok.result.refreshToken = tok.refreshToken
       /\ Truthy(tok.refreshToken) => Truthy(tok.result.refreshToken)
\* The answer {access_token: "T2"} to a refresh made with "R1".
C16_Witness ==
  /\ tok.fn = "refresh"
  /\ tok.pc = "returned"
  /\ tok.refreshToken = "R1"
  /\ tok.answer.data.access_token = "T2"
  /\ tok.answer.data.refresh_token = Null
  /\ tok.result.refreshToken = "R1"

\* C17: a refreshAccessToken call issues exactly one POST, carrying the
\* input refresh token; on a non-2xx answer it throws TokenRefreshError with
\* the status and the body; and after a failure neither function has issued
\* a further request.
C17_OnePostNoRetry ==
  /\ tok.fn = "refresh" =>
       /\ Len(tok.posts) = 1
       /\ tok.posts[1].grant_type = "refresh_token"
       /\ tok.posts[1].refresh_token = tok.refreshToken
  /\ (tok.fn = "refresh" /\ tok.pc # "awaiting" /\ tok.answer.kind = "http_error") =>
       /\ tok.pc = "thrown"
       /\ tok.result.kind = "TokenRefreshError"
       /\ tok.result.status = tok.answer.status
       /\ tok.result.reason = tok.answer.text
  /\ tok.pc = "thrown" => Len(tok.posts) = 1
\* A refresh answered 401.
C17_Witness ==
  /\ tok.fn = "refresh"
  /\ tok.pc = "thrown"
  /\ tok.answer.status = 401
  /\ tok.result.kind = "TokenRefreshError"

\* The caller's additionalParams hold one of these keys.
Overrides(c, keys) == \E i \in 1..Len(c.additionalParams) : c.additionalParams[i].key \in keys
\* The scopes in caller order with the separator between neighbours, as
\* the pieces of one string.
Interleaved(list, sep) ==
  [i \in 1..(2 * Len(list) - 1) |-> IF i % 2 = 1 THEN list[(i + 1) \div 2] ELSE sep]
Joined(list, sep) == SelectSeq(Interleaved(list, sep), LAMBDA x : x # "")
\* Number of entries of a query with a given name.
Count(q, k) == Cardinality({i \in 1..Len(q) : q[i].key = k})

\* C18: the redirect_uri of every token-exchange POST is the redirect_uri
\* query parameter of the authorization URL the flow opened, for every
\* config, colliding additionalParams included.
C18_SameRedirectUri ==
  \A k \in 1..Len(posts) :
    /\ Has(authUrl, "redirect_uri")
    /\ posts[k].body.redirect_uri = Get(authUrl, "redirect_uri")

\* C19 as stated: for every config the authorization URL carries
\* client_id, redirect_uri and response_type=code, and carries a scope
\* parameter, equal to the scopes joined in caller order by scopeSeparator
\* (a space when unset), exactly when scopes is non-empty.
C19_Original ==
  server = "listening" =>
    /\ Has(authUrl, "client_id")
    /\ Has(authUrl, "redirect_uri")
    /\ Has(authUrl, "response_type") /\ Get(authUrl, "response_type") = <<"code">>
    /\ Has(authUrl, "scope") <=> Len(config.scopes) > 0
    /\ Len(config.scopes) > 0 =>
         Get(authUrl, "scope") =
           Joined(config.scopes,
                  IF config.scopeSeparator = Null THEN " " ELSE config.scopeSeparator)

\* C19 amended: the same, for every config whose additionalParams hold
\* neither the key response_type nor the key scope.
C19_StandardParams ==
  (server = "listening" /\ ~Overrides(config, {"response_type", "scope"})) =>
    /\ Has(authUrl, "client_id")
    /\ Has(authUrl, "redirect_uri")
    /\ Has(authUrl, "response_type") /\ Get(authUrl, "response_type") = <<"code">>
    /\ Has(authUrl, "scope") <=> Len(config.scopes) > 0
    /\ Len(config.scopes) > 0 =>
         Get(authUrl, "scope") =
           Joined(config.scopes,
                  IF config.scopeSeparator = Null THEN " " ELSE config.scopeSeparator)
\* scopes ["read", "activity:read_all"] with separator ",".
C19_Witness ==
  /\ server = "listening"
  /\ ~Overrides(config, {"response_type", "scope"})
  /\ config.scopes = <<"read", "activity:read_all">>
  /\ config.scopeSeparator = ","
  /\ Get(authUrl, "scope") = <<"read", ",", "activity:read_all">>

\* C20: every key of additionalParams is in the authorization URL exactly
\* once, with the caller's value, also when the key is one of the standard
\* parameters.
C20_AdditionalParamsWin ==
  server = "listening" =>
    \A i \in 1..Len(config.additionalParams) :
      LET e == config.additionalParams[i]
      IN /\ Count(authUrl, e.key) = 1
         /\ Get(authUrl, e.key) = e.value
\* A caller's redirect_uri and scope replacing the standard ones.
C20_Witness ==
  /\ server = "listening"
  /\ Len(config.scopes) > 0
  /\ \E i \in 1..Len(config.additionalParams) : config.additionalParams[i].key = "scope"
  /\ \E i \in 1..Len(config.additionalParams) : config.additionalParams[i].key = "redirect_uri"
  /\ Get(authUrl, "scope") = <<"custom">>
  /\ Get(authUrl, "redirect_uri") = <<"http://other/cb">>
  /\ Len(authUrl) = 4

\* C21: in a flow whose listener binds, open() is called exactly once: not
\* before the bind, once by the time the listener accepts its first request,
\* and never again by a callback, a token answer or the timer.
C21_BrowserOpenedOnce ==
  /\ server = "binding" => browserOpens = 0
  /\ server \in {"listening", "closed"} => browserOpens = 1
  /\ Len(log) > 0 => browserOpens = 1
\* Two callbacks, a token exchange and the timer have all run.
C21_Witness ==
  /\ browserOpens = 1
  /\ Len(log) >= 2
  /\ Len(posts) >= 1
  /\ timer = "fired"
  /\ server = "closed"

C23_StoreWrittenByCallerOnly ==
  [][(envFile' # envFile \/ envCalls' # envCalls)
       => \/ /\ caller = "awaiting"
             /\ caller' = "returned"
             /\ promise.state = "resolved"
             /\ UNCHANGED flowVars
          \/ /\ sync.pc = "refreshing"
             /\ sync'.pc = "calling"
             /\ sync'.answer.kind = "ok"
             /\ UNCHANGED flowVars]_vars
\* authenticate() has saved the tokens of a resolved flow.
C23_Witness ==
  /\ caller = "returned"
  /\ Len(envCalls) = 1
  /\ promise.state = "resolved"
  /\ \E n \in 1..Len(envFile) : envFile[n] = <<"STRAVA_ACCESS_TOKEN", "=", "T">>

\* C24: when the second flow's listen() is decided while the first flow's
\* listener holds the same port, the second flow rejects with the startup
\* error and has opened no browser, then and ever after; and no step of the
\* second flow changes anything of the first flow.
C24_SecondFlowFails ==
  [][
    /\ (other.server = "binding" /\ other'.server # "binding" /\ HeldByFirst)
         => (/\ other'.server = "failed"
             /\ other'.promise.state = "rejected"
             /\ other'.promise.value.kind = "ListenerStartupError"
             /\ other'.browserOpens = 0)
    /\ other.server = "failed" => (other'.browserOpens = 0 /\ other'.promise = other.promise)
    /\ other' # other => UNCHANGED flowVars
  ]_vars
\* The second flow failed on the first flow's port and its timer ran; the
\* first flow then resolved with tokens.
C24_Witness ==
  /\ other.server = "failed"
  /\ other.timer = "fired"
  /\ other.browserOpens = 0
  /\ other.promise.value.kind = "ListenerStartupError"
  /\ port(config) = port(other)
  /\ promise.state = "resolved"
  /\ browserOpens = 1

\* The entries of a file whose key is not a key of updates.
EntriesNotIn(file, updates) ==
  LET Other(e) == \A i \in 1..Len(updates) : e.key # <<updates[i].key>>
  IN SelectSeq(Entries(file), Other)

\* C25: after updateEnvFile(updates) the entries of the other keys are the
\* entries the file had, in their order, and every key of updates has
\* exactly one entry in the file, holding the new value; for every prior
\* file and after every call.
C25_Upsert ==
  envCalls # <<>> =>
    LET call == envCalls[Len(envCalls)]
        now == Entries(envFile)
    IN /\ EntriesNotIn(envFile, call.updates) = EntriesNotIn(call.before, call.updates)
       /\ \A i \in 1..Len(call.updates) :
            /\ Cardinality({n \in 1..Len(now) : now[n].key = <<call.updates[i].key>>}) = 1
            /\ \E n \in 1..Len(now) : now[n] = [key |-> <<call.updates[i].key>>,
                                                  value |-> call.updates[i].value]

\* C26: the step that handles a request whose path is not /callback, or
\* whose method is not GET, answers 404 and changes nothing else: promise,
\* listener, token-exchange POSTs and timer stay as they were.
C26_OtherRequestsIgnored ==
  [][Len(log') = Len(log) + 1
       => LET entry == log'[Len(log')]
          IN (entry.req.path # "/callback" \/ entry.req.method # "GET")
               => /\ entry.http = 404
                  /\ promise' = promise
                  /\ server' = server
                  /\ posts' = posts
                  /\ timer' = timer]_vars

\* C27: every API request sync() makes when the tracked expiry has passed
\* follows a refresh, carries the access token the refresh returned, and is
\* made after the new tokens were saved to .env; the access token whose
\* expiry has passed is not sent.
C27_RefreshBeforeApiCall ==
  \A k \in 1..Len(sync.calls) :
    (sync.env.expiresAt # NoNum /\ sync.env.expiresAt <= sync.calls[k].at)
      => /\ Len(sync.refreshes) = 1
         /\ sync.answer.kind = "ok"
         /\ sync.calls[k].token = sync.answer.data.access_token
         /\ sync.calls[k].token # sync.env.accessToken
         /\ Len(envCalls) = 1

\* C28: once the flow has settled, the listener is not accepting
\* connections and the timer of the flow does not fire any more.
C28_NothingActiveAfterSettle ==
  [][Settled => (server # "listening" /\ timer' = timer)]_vars

\* C29: a request to /callback that carries a non-empty error and a code is
\* handled as a denial: it is answered 400, the flow is rejected with the
\* authorization-denied error, and no token-exchange POST is issued for it.
C29_ErrorBeforeCode ==
  \A i \in 1..Len(log) :
    LET r == log[i].req
    IN (r.path = "/callback" /\ Truthy(r.error) /\ r.code # Null)
         => /\ log[i].http = 400
            /\ log[i].state = "done"
            /\ PostsOf(i) = {}
            /\ Rejected("AuthorizationDeniedError")
\* The first request carried error=access_denied and code=c1.
C29_Witness ==
  /\ Len(log) >= 1
  /\ log[1].req.error = "access_denied"
  /\ log[1].req.code = "c1"
  /\ Rejected("AuthorizationDeniedError")
  /\ posts = <<>>
  /\ server = "closed"

\* The rows of _migrations that record migration m of an integration, and
\* the executions of it.
RecordedRows(integration, m) ==
  {n \in 1..Len(db.rows) : db.rows[n] = MigrationRow(integration, m)}
Executions(integration, m) ==
  {n \in 1..Len(db.executed) :
     db.executed[n].integration = integration /\ db.executed[n].version = m.version}

\* C30: no run of runAllMigrations throws; no migration is executed or
\* recorded twice; when a run has completed every migration of every
\* registered integration is recorded once; and a run that follows a
\* completed run executes nothing.
C30_MigrationsRunOnce ==
  /\ db.pc # "thrown"
  /\ \A a \in 1..Len(Registry) :
       \A b \in 1..Len(Migrations(Registry[a])) :
         LET m == Migrations(Registry[a])[b]
         IN /\ Cardinality(RecordedRows(Registry[a], m)) <= 1
            /\ Cardinality(Executions(Registry[a], m)) <= 1
            /\ db.completed >= 1 => Cardinality(RecordedRows(Registry[a], m)) = 1
  /\ \A n \in 1..Len(db.executed) : db.completed = 0 \/ db.executed[n].run <= 1

====
